---- MODULE Spec2Model ----
(***************************************************************************)
(* Model of the public "util" facade of the engine (src/b4w/ext/util.js).  *)
(*                                                                         *)
(* The facade owns six exported axis constants (Float32Array objects) and  *)
(* a set of functions that either wrap or directly re-export functions of  *)
(* the internal "__util" module.  The state is the heap of typed arrays    *)
(* (object identity matters: destinations are passed by reference), the    *)
(* error log of the "__print" collaborator, and the record of the facade   *)
(* call the caller made last, with the heap as it was before that call.    *)
(*                                                                         *)
(* The internal module is not part of the facade's source.  Its functions  *)
(* are modelled by what the facade's documentation and the specification   *)
(* say about them: they compute a value (here an input r of the call,      *)
(* drawn from a small set), store it in the destination, allocating one    *)
(* when the destination is absent, and return the destination.  Every call *)
(* the facade makes into the internal module is recorded with its          *)
(* arguments, in order.                                                    *)
(***************************************************************************)
EXTENDS Integers, Sequences, FiniteSets, TLC

VARIABLES heap,      \* heap[i]: contents of the typed array with identity i
          log,       \* messages passed to m_print.error, oldest first
          rejected,  \* number of quat_project calls made with dot # 0
          pre,       \* the heap as it was when the last call was made
          last       \* the last facade call: op, args, ret, calls, errs

vars == <<heap, log, rejected, pre, last>>

----------------------------------------------------------------------------
(* Bounds of the model *)

\* largest number of typed arrays the heap may hold
MaxBufs == 13
\* largest number of messages the error log may hold
MaxErrors == 2

----------------------------------------------------------------------------
(* Object identities *)

AXIS_X  == 1
AXIS_Y  == 2
AXIS_Z  == 3
AXIS_MX == 4
AXIS_MY == 5
AXIS_MZ == 6
\* the internal module's own axis objects, read as util.AXIS_*
util_AXIS_MY == 7
util_AXIS_Y  == 8
util_AXIS_MZ == 9
\* typed arrays the caller owns: a quaternion and a 4x4 matrix
QUAT0 == 10
MAT0  == 11

ExportIds   == {AXIS_X, AXIS_Y, AXIS_Z, AXIS_MX, AXIS_MY, AXIS_MZ}
InternalIds == {util_AXIS_MY, util_AXIS_Y, util_AXIS_MZ}

\* an argument the caller left out (undefined): falsy in "if (!quat)"
Absent == 0

\* JavaScript values a facade function may return
Ref(i)    == <<"ref", i>>
Null      == <<"null">>
Undefined == <<"undefined">>
Num(n)    == <<"num", n>>

WrongInPlane == "Wrong in-plane direction"

\* new Float32Array(n): n zeros
Float32Array(n) == [i \in 1..n |-> 0]

V3(x, y, z) == <<x, y, z>>

IdentityMat == <<1,0,0,0, 0,1,0,0, 0,0,1,0, 0,0,0,1>>

\* exports.AXIS_X .. exports.AXIS_MZ, in the order of their identities
ExportValues ==
    <<V3(1,0,0), V3(0,1,0), V3(0,0,1), V3(-1,0,0), V3(0,-1,0), V3(0,0,-1)>>

\* util.AXIS_MY, util.AXIS_Y, util.AXIS_MZ
UtilValues == <<V3(0,-1,0), V3(0,1,0), V3(0,0,-1)>>

\* the caller's quaternion (identity rotation) and matrix
CallerValues == <<<<0,0,0,1>>, IdentityMat>>

InitHeap == ExportValues \o UtilValues \o CallerValues

----------------------------------------------------------------------------
(* Typed-array primitives *)

\* h with a new typed array of n zeros; its identity is Len(h) + 1
Alloc(h, n) == Append(h, Float32Array(n))

\* element-wise store of the value r into the typed array d; stores past
\* the end of a typed array are dropped, elements r does not cover are kept
Write(h, d, r) ==
    [h EXCEPT ![d] = [i \in 1..Len(h[d]) |->
                        IF i <= Len(r) THEN r[i] ELSE h[d][i]]]

\* m_vec3.dot(a, b)
dot(a, b) == a[1] * b[1] + a[2] * b[2] + a[3] * b[3]

----------------------------------------------------------------------------
(* The internal module "__util" *)

\* a conversion of the internal module that stores its n-component result r
\* in dest, or in a new typed array when dest is absent, and returns it
util_conv(fn, h, args, dest, n, r) ==
    LET call == [fn |-> fn, args |-> Append(args, dest)]
    IN  IF dest = Absent
        THEN [heap  |-> Write(Alloc(h, n), Len(h) + 1, r),
              ret   |-> Ref(Len(h) + 1),
              errs  |-> <<>>,
              calls |-> <<call>>]
        ELSE [heap  |-> Write(h, dest, r),
              ret   |-> Ref(dest),
              errs  |-> <<>>,
              calls |-> <<call>>]

util_matrix_to_quat(h, matrix, r) ==
    [heap  |-> Write(Alloc(h, 4), Len(h) + 1, r),
     ret   |-> Ref(Len(h) + 1),
     errs  |-> <<>>,
     calls |-> <<[fn |-> "matrix_to_quat", args |-> <<matrix>>]>>]

util_euler_to_quat(h, euler, quat, r) ==
    util_conv("euler_to_quat", h, <<euler>>, quat, 4, r)

util_quat_to_euler(h, quat, euler, r) ==
    util_conv("quat_to_euler", h, <<quat>>, euler, 3, r)

util_quat_to_dir(h, quat, ident, dest, r) ==
    util_conv("quat_to_dir", h, <<quat, ident>>, dest, 3, r)

util_quat_project(h, quat, quat_ident_dir, plane, plane_ident_dir, dest, r) ==
    util_conv("quat_project", h,
              <<quat, quat_ident_dir, plane, plane_ident_dir>>, dest, 4, r)

util_cam_quat_to_mesh_quat(h, cam_quat, dest, r) ==
    util_conv("cam_quat_to_mesh_quat", h, <<cam_quat>>, dest, 4, r)

util_smooth_v(h, curr, last_v, delta, period, dest, r) ==
    util_conv("smooth_v", h, <<curr, last_v, delta, period>>, dest, 3, r)

\* corrects quat in place and returns nothing
util_correct_cam_quat_up(h, quat, up_only, r) ==
    [heap  |-> Write(h, quat, r),
     ret   |-> Undefined,
     errs  |-> <<>>,
     calls |-> <<[fn |-> "correct_cam_quat_up", args |-> <<quat, up_only>>]>>]

util_clamp(value, min, max) ==
    LET lo == IF value < max THEN value ELSE max
    IN  IF lo > min THEN lo ELSE min

util_sign(value) == IF value > 0 THEN 1 ELSE IF value < 0 THEN -1 ELSE 0

----------------------------------------------------------------------------
(* The facade: exports.* of src/b4w/ext/util.js *)

matrix_to_quat(h, matrix, r) == util_matrix_to_quat(h, matrix, r)

\* variant: the quaternion buffer is allocated with three components
euler_to_quat_alloc3(h, euler, quat, r) ==
    IF quat = Absent
    THEN util_euler_to_quat(Alloc(h, 3), euler, Len(h) + 1, r)
    ELSE util_euler_to_quat(h, euler, quat, r)

euler_to_quat(h, euler, quat, r) ==
    IF quat = Absent
    THEN util_euler_to_quat(Alloc(h, 4), euler, Len(h) + 1, r)
    ELSE util_euler_to_quat(h, euler, quat, r)

\* variant: the absent destination is handed on to the conversion
quat_to_euler_noalloc(h, quat, euler, r) ==
    util_quat_to_euler(h, quat, euler, r)

quat_to_euler(h, quat, euler, r) ==
    IF euler = Absent
    THEN util_quat_to_euler(Alloc(h, 3), quat, Len(h) + 1, r)
    ELSE util_quat_to_euler(h, quat, euler, r)

\* variant: exports.clamp bound to the neighbouring util.sign
clamp_sign(value, min, max) == util_sign(value)

clamp(value, min, max) == util_clamp(value, min, max)

quat_to_dir(h, quat, ident, dest, r) ==
    util_quat_to_dir(h, quat, ident, dest, r)

\* variant: the guard tests "> 0" and lets a negative dot product through
quat_project_positive(h, quat, quat_ident_dir, plane, plane_ident_dir, dest, r) ==
    IF dot(h[plane], h[plane_ident_dir]) > 0
    THEN [heap |-> h, ret |-> Null, errs |-> <<WrongInPlane>>, calls |-> <<>>]
    ELSE util_quat_project(h, quat, quat_ident_dir, plane, plane_ident_dir,
                           dest, r)

\* variant: the destination is defaulted before the guard, as in euler_to_quat
quat_project_prealloc(h, quat, quat_ident_dir, plane, plane_ident_dir, dest, r) ==
    LET h1 == IF dest = Absent THEN Alloc(h, 4) ELSE h
        d1 == IF dest = Absent THEN Len(h) + 1 ELSE dest
    IN  IF dot(h1[plane], h1[plane_ident_dir]) # 0
        THEN [heap |-> h1, ret |-> Null, errs |-> <<WrongInPlane>>,
              calls |-> <<>>]
        ELSE util_quat_project(h1, quat, quat_ident_dir, plane,
                               plane_ident_dir, d1, r)

\* variant: plane and quat_ident_dir change places in the delegated call
quat_project_swapped(h, quat, quat_ident_dir, plane, plane_ident_dir, dest, r) ==
    IF dot(h[plane], h[plane_ident_dir]) # 0
    THEN [heap |-> h, ret |-> Null, errs |-> <<WrongInPlane>>, calls |-> <<>>]
    ELSE util_quat_project(h, quat, plane, quat_ident_dir, plane_ident_dir,
                           dest, r)

\* variant: the failure is returned but not reported
quat_project_silent(h, quat, quat_ident_dir, plane, plane_ident_dir, dest, r) ==
    IF dot(h[plane], h[plane_ident_dir]) # 0
    THEN [heap |-> h, ret |-> Null, errs |-> <<>>, calls |-> <<>>]
    ELSE util_quat_project(h, quat, quat_ident_dir, plane, plane_ident_dir,
                           dest, r)

quat_project(h, quat, quat_ident_dir, plane, plane_ident_dir, dest, r) ==
    IF dot(h[plane], h[plane_ident_dir]) # 0
    THEN [heap |-> h, ret |-> Null, errs |-> <<WrongInPlane>>, calls |-> <<>>]
    ELSE util_quat_project(h, quat, quat_ident_dir, plane, plane_ident_dir,
                           dest, r)

\* variant: the plane normal is passed where the -Y identity direction goes
ground_project_quat_plus_y(h, quat, dest, r) ==
    util_quat_project(h, quat, util_AXIS_Y, util_AXIS_Y, util_AXIS_MZ, dest, r)

\* variant: routed through the guarded exports.quat_project with the
\* exported constants
ground_project_quat_guarded(h, quat, dest, r) ==
    IF dot(h[AXIS_Y], h[AXIS_MZ]) # 0
    THEN [heap |-> h, ret |-> Null, errs |-> <<WrongInPlane>>, calls |-> <<>>]
    ELSE util_quat_project(h, quat, AXIS_MY, AXIS_Y, AXIS_MZ, dest, r)

ground_project_quat(h, quat, dest, r) ==
    util_quat_project(h, quat, util_AXIS_MY, util_AXIS_Y, util_AXIS_MZ, dest, r)

\* variant: the facade defaults the destination itself
cam_quat_to_mesh_quat_alloc(h, cam_quat, dest, r) ==
    IF dest = Absent
    THEN util_cam_quat_to_mesh_quat(Alloc(h, 4), cam_quat, Len(h) + 1, r)
    ELSE util_cam_quat_to_mesh_quat(h, cam_quat, dest, r)

cam_quat_to_mesh_quat(h, cam_quat, dest, r) ==
    util_cam_quat_to_mesh_quat(h, cam_quat, dest, r)

smooth_v(h, curr, last_v, delta, period, dest, r) ==
    util_smooth_v(h, curr, last_v, delta, period, dest, r)

correct_cam_quat_up(h, quat, up_only, r) ==
    util_correct_cam_quat_up(h, quat, up_only, r)

----------------------------------------------------------------------------
(* Arguments the caller passes *)

QuatInputs  == {QUAT0}
EulerInputs == {AXIS_X}
\* destinations: left out, the caller's quaternion, or an exported constant
DestInputs  == {Absent, QUAT0, AXIS_MZ}
QidInputs   == {AXIS_MY, AXIS_Z}
PlaneInputs == {AXIS_Y, AXIS_MZ}
PidInputs   == {AXIS_MZ, AXIS_Y, AXIS_MY}
NumInputs   == -2..3

\* values the internal module may compute
QuatResults == {<<0,0,0,1>>, <<0,1,0,0>>}
VecResults  == {<<0,0,0>>, <<0,1,0>>}

----------------------------------------------------------------------------
(* The caller: one facade call at a time *)

NoCall == [op |-> "none", args |-> <<>>, ret |-> Undefined,
           calls |-> <<>>, errs |-> <<>>]

Init ==
    /\ heap = InitHeap
    /\ log = <<>>
    /\ rejected = 0
    /\ pre = InitHeap
    /\ last = NoCall

\* the caller makes the call op(args) and the facade's outcome o takes effect
Call(op, args, o) ==
    /\ last.op = "none"
    /\ Len(o.heap) <= MaxBufs
    /\ Len(log) + Len(o.errs) <= MaxErrors
    /\ heap' = o.heap
    /\ log' = log \o o.errs
    /\ pre' = heap
    /\ last' = [op |-> op, args |-> args, ret |-> o.ret,
                calls |-> o.calls, errs |-> o.errs]

MatrixToQuat ==
    \E r \in QuatResults :
        /\ Call("matrix_to_quat", <<MAT0>>, matrix_to_quat(heap, MAT0, r))
        /\ UNCHANGED rejected

EulerToQuat ==
    \E euler \in EulerInputs, quat \in DestInputs, r \in QuatResults :
        /\ Call("euler_to_quat", <<euler, quat>>,
                euler_to_quat(heap, euler, quat, r))
        /\ UNCHANGED rejected

QuatToEuler ==
    \E quat \in QuatInputs, euler \in DestInputs, r \in VecResults :
        /\ Call("quat_to_euler", <<quat, euler>>,
                quat_to_euler(heap, quat, euler, r))
        /\ UNCHANGED rejected

QuatToDir ==
    \E quat \in QuatInputs, dest \in DestInputs, r \in VecResults :
        /\ Call("quat_to_dir", <<quat, AXIS_MZ, dest>>,
                quat_to_dir(heap, quat, AXIS_MZ, dest, r))
        /\ UNCHANGED rejected

GroundProjectQuat ==
    \E quat \in QuatInputs, dest \in DestInputs, r \in QuatResults :
        /\ Call("ground_project_quat", <<quat, dest>>,
                ground_project_quat(heap, quat, dest, r))
        /\ UNCHANGED rejected

CamQuatToMeshQuat ==
    \E quat \in QuatInputs, dest \in DestInputs, r \in QuatResults :
        /\ Call("cam_quat_to_mesh_quat", <<quat, dest>>,
                cam_quat_to_mesh_quat(heap, quat, dest, r))
        /\ UNCHANGED rejected

QuatProject ==
    \E quat \in QuatInputs, qid \in QidInputs, plane \in PlaneInputs,
       pid \in PidInputs, dest \in DestInputs, r \in QuatResults :
        /\ Call("quat_project", <<quat, qid, plane, pid, dest>>,
                quat_project(heap, quat, qid, plane, pid, dest, r))
        /\ rejected' = IF dot(heap[plane], heap[pid]) # 0
                       THEN rejected + 1 ELSE rejected

SmoothV ==
    \E dest \in DestInputs, r \in VecResults :
        /\ Call("smooth_v", <<AXIS_X, AXIS_Z, 1, 2, dest>>,
                smooth_v(heap, AXIS_X, AXIS_Z, 1, 2, dest, r))
        /\ UNCHANGED rejected

CorrectCamQuatUp ==
    \E quat \in QuatInputs \cup {AXIS_MZ}, up_only \in BOOLEAN :
        \E r \in QuatResults \cup {heap[quat]} :
            /\ Call("correct_cam_quat_up", <<quat, up_only>>,
                    correct_cam_quat_up(heap, quat, up_only, r))
            /\ UNCHANGED rejected

Clamp ==
    \E value \in NumInputs, min \in NumInputs, max \in NumInputs :
        /\ Call("clamp", <<value, min, max>>,
                [heap |-> heap, ret |-> Num(clamp(value, min, max)),
                 errs |-> <<>>, calls |-> <<>>])
        /\ UNCHANGED rejected

\* the caller takes the result of the call and is ready for the next one
Return ==
    /\ last.op # "none"
    /\ last' = NoCall
    /\ pre' = heap
    /\ UNCHANGED <<heap, log, rejected>>

Next ==
    \/ MatrixToQuat
    \/ EulerToQuat
    \/ QuatToEuler
    \/ QuatToDir
    \/ GroundProjectQuat
    \/ CamQuatToMeshQuat
    \/ QuatProject
    \/ SmoothV
    \/ CorrectCamQuatUp
    \/ Return

Spec == Init /\ [][Next]_vars

\* the scalar helpers alone
NextClamp ==
    \/ Clamp
    \/ Return

SpecClamp == Init /\ [][NextClamp]_vars

----------------------------------------------------------------------------
(* Properties of exports.quat_project *)

\* the last call was quat_project and, as the heap stood when it was made,
\* the plane normal and the in-plane direction had dot product d
IsQuatProject == last.op = "quat_project"
LastDot == dot(pre[last.args[3]], pre[last.args[4]])

\* C1: a quat_project call whose plane and plane_ident_dir have a nonzero
\* dot product, of either sign, reports "Wrong in-plane direction" to the
\* log and returns null; the call completes with that value.
C1_RejectReportsAndReturnsNull ==
    (IsQuatProject /\ LastDot # 0) =>
        /\ last.ret = Null
        /\ last.errs = <<WrongInPlane>>
        /\ Len(log) >= 1
        /\ log[Len(log)] = WrongInPlane

C1_Witness ==
    /\ IsQuatProject
    /\ LastDot < 0
    /\ last.ret = Null
    /\ log # <<>>

\* C2: a rejected quat_project call never invokes the internal projection
\* and leaves every typed array, the caller's destination included, as it
\* was: no array is written and none is allocated; one error is logged.
C2_RejectLeavesBuffersUnchanged ==
    (IsQuatProject /\ LastDot # 0) =>
        /\ last.calls = <<>>
        /\ heap = pre
        /\ Len(last.errs) = 1

C2_Witness ==
    /\ IsQuatProject
    /\ LastDot # 0
    /\ last.args[5] = QUAT0
    /\ heap = pre
    /\ last.calls = <<>>

\* C3: a quat_project call whose plane and plane_ident_dir have dot product
\* zero reports nothing, and its outcome (returned value, heap, calls made)
\* is the outcome of one internal projection invoked with the same five
\* arguments in the same order.
C3_AcceptDelegatesUnchanged ==
    (IsQuatProject /\ LastDot = 0) =>
        /\ last.errs = <<>>
        /\ \E r \in QuatResults :
              LET o == util_quat_project(pre, last.args[1], last.args[2],
                           last.args[3], last.args[4], last.args[5], r)
              IN  /\ last.ret = o.ret
                  /\ last.calls = o.calls
                  /\ heap = o.heap

C3_Witness ==
    /\ IsQuatProject
    /\ LastDot = 0
    /\ last.args[3] = AXIS_Y
    /\ last.args[4] = AXIS_MZ
    /\ last.ret = Ref(QUAT0)
    /\ Len(last.calls) = 1

----------------------------------------------------------------------------
(* Properties of exports.ground_project_quat *)

IsGround == last.op = "ground_project_quat"

\* the typed arrays that held the value v when the last call was made
Holding(v) == {i \in 1..Len(pre) : pre[i] = v}

\* the values of the arguments of an internal call, as the heap stood when
\* the last call was made
ArgValues(call) == [i \in 1..4 |-> pre[call.args[i]]]

\* C4: ground_project_quat(quat, dest) has the result and the effects of the
\* facade call quat_project(quat, a, b, c, dest) for any typed arrays a, b, c
\* that hold -Y, +Y, -Z and are not the destination: the same returned
\* value, the same heap afterwards, the same (empty) list of errors, and one
\* internal projection on arguments of the same values.
C4_GroundIsProjectSpecialization ==
    IsGround =>
        \A a \in Holding(V3(0,-1,0)), b \in Holding(V3(0,1,0)),
           c \in Holding(V3(0,0,-1)) :
            (last.args[2] \notin {a, b, c}) =>
                \E r \in QuatResults :
                    LET o == quat_project(pre, last.args[1], a, b, c,
                                          last.args[2], r)
                    IN  /\ o.ret = last.ret
                        /\ o.heap = heap
                        /\ o.errs = last.errs
                        /\ Len(o.calls) = 1
                        /\ Len(last.calls) = 1
                        /\ o.calls[1].fn = last.calls[1].fn
                        /\ ArgValues(o.calls[1]) = ArgValues(last.calls[1])
                        /\ o.calls[1].args[5] = last.calls[1].args[5]

C4_Witness ==
    /\ IsGround
    /\ AXIS_MY \in Holding(V3(0,-1,0))
    /\ AXIS_Y \in Holding(V3(0,1,0))
    /\ AXIS_MZ \in Holding(V3(0,0,-1))
    /\ last.args[2] = QUAT0
    /\ last.ret = Ref(QUAT0)

\* C10: ground_project_quat never reports an error and invokes the internal
\* projection exactly once, with the internal module's own -Y, +Y, -Z
\* objects, whatever the exported constants hold at the time.
C10_GroundBypassesGuard ==
    IsGround =>
        /\ last.errs = <<>>
        /\ last.ret # Null
        /\ last.calls = <<[fn |-> "quat_project",
                           args |-> <<last.args[1], util_AXIS_MY, util_AXIS_Y,
                                      util_AXIS_MZ, last.args[2]>>]>>

\* the call was made after exports.AXIS_MZ had been overwritten so that the
\* exported +Y and -Z were no longer perpendicular
C10_Witness ==
    /\ IsGround
    /\ pre[AXIS_MZ] # ExportValues[AXIS_MZ]
    /\ dot(pre[AXIS_Y], pre[AXIS_MZ]) # 0
    /\ last.errs = <<>>
    /\ Len(last.calls) = 1

----------------------------------------------------------------------------
(* Properties of the destination defaulting *)

\* the destination the caller gave (the last argument of a conversion) and
\* the destination the k-th internal call received
GivenDest == last.args[Len(last.args)]
PassedDest(k) == last.calls[k].args[Len(last.calls[k].args)]

\* the typed arrays that did not exist when the last call was made
Fresh == (Len(pre) + 1)..Len(heap)

\* the facade's own defaulting for the call op, whose buffer has n components
DefaultsDest(op, n) ==
    (last.op = op) =>
        /\ Len(last.calls) = 1
        /\ IF GivenDest = Absent
           THEN /\ Len(heap) = Len(pre) + 1
                /\ PassedDest(1) \in Fresh
                /\ Len(heap[PassedDest(1)]) = n
                /\ PassedDest(1) # last.args[1]
                /\ PassedDest(1) \notin ExportIds \cup InternalIds
           ELSE /\ Len(heap) = Len(pre)
                /\ PassedDest(1) = GivenDest

\* C5: euler_to_quat without a destination passes a typed array of 4
\* components that did not exist before the call (so it is no input, no
\* buffer of an earlier call and no axis constant), quat_to_euler one of 3
\* components; with a destination, that destination is passed and nothing
\* is allocated.
C5_DefaultDestIsFresh ==
    /\ DefaultsDest("euler_to_quat", 4)
    /\ DefaultsDest("quat_to_euler", 3)

\* an earlier call has allocated a buffer, and this one allocates its own
C5_Witness ==
    /\ last.op = "euler_to_quat"
    /\ GivenDest = Absent
    /\ Len(pre) > Len(InitHeap)
    /\ PassedDest(1) = Len(pre) + 1
    /\ last.ret = Ref(Len(pre) + 1)

ConversionOps ==
    {"euler_to_quat", "quat_to_euler", "quat_to_dir", "quat_project",
     "ground_project_quat", "cam_quat_to_mesh_quat", "smooth_v"}

FacadeDefaultingOps == {"euler_to_quat", "quat_to_euler"}

\* C6 as stated: no conversion of the facade hands an absent destination on
\* to the computation.
C6_NeverHandsAbsentDestOn ==
    (last.op \in ConversionOps) =>
        \A k \in 1..Len(last.calls) : PassedDest(k) # Absent

\* C6 amended: euler_to_quat and quat_to_euler never hand an absent
\* destination on; the other conversions hand the destination on exactly as
\* the caller gave it, absent included.
C6_OnlyEulerConversionsDefault ==
    /\ (last.op \in FacadeDefaultingOps) =>
           /\ Len(last.calls) = 1
           /\ PassedDest(1) # Absent
           /\ (GivenDest = Absent) =>
                  (PassedDest(1) \in Fresh /\ last.ret = Ref(PassedDest(1)))
    /\ (last.op \in ConversionOps \ FacadeDefaultingOps) =>
           \A k \in 1..Len(last.calls) : PassedDest(k) = GivenDest

C6_Witness ==
    /\ last.op = "cam_quat_to_mesh_quat"
    /\ GivenDest = Absent
    /\ Len(last.calls) = 1
    /\ PassedDest(1) = Absent

----------------------------------------------------------------------------
(* Properties of the whole facade *)

\* C7 as stated: after any sequence of facade calls the six exported axis
\* constants hold (1,0,0), (0,1,0), (0,0,1), (-1,0,0), (0,-1,0), (0,0,-1).
C7_AxisConstantsImmutable ==
    \A i \in ExportIds : heap[i] = ExportValues[i]

\* C8: the log holds exactly one "Wrong in-plane direction" per quat_project
\* call made with a nonzero dot product, and no other facade operation
\* reports an error or returns null.
C8_OnlyErrorChannel ==
    /\ Len(log) = rejected
    /\ \A k \in 1..Len(log) : log[k] = WrongInPlane
    /\ (last.op # "quat_project") => (last.errs = <<>> /\ last.ret # Null)
    /\ (IsQuatProject /\ LastDot = 0) => (last.errs = <<>> /\ last.ret # Null)

\* a rejection has been logged, and a later call of another operation has
\* added nothing to the log
C8_Witness ==
    /\ rejected = 1
    /\ Len(log) = 1
    /\ last.op = "matrix_to_quat"

----------------------------------------------------------------------------
(* Properties of exports.clamp *)

\* C9: for min <= max, clamp(value, min, max) is value when it lies in
\* [min, max], min when value < min and max when value > max; the result
\* lies in [min, max].
C9_ClampInRange ==
    (last.op = "clamp" /\ last.args[2] <= last.args[3]) =>
        LET value == last.args[1]
            min   == last.args[2]
            max   == last.args[3]
        IN  /\ last.ret = Num(IF value < min THEN min
                              ELSE IF value > max THEN max ELSE value)
            /\ last.ret[2] >= min
            /\ last.ret[2] <= max

C9_Witness ==
    /\ last.op = "clamp"
    /\ last.args[2] < last.args[3]
    /\ last.args[1] > last.args[3]
    /\ last.ret = Num(last.args[3])

====
